---- MODULE Spec2Model ----
(***************************************************************************)
(* A model of the raymarcher: the camera's RayGenerator (camera.rs), the   *)
(* scene's nearest-surface composition (scene.rs), the sphere-tracing      *)
(* integrators send_ray / send_ray_dist, frame assembly in march and the   *)
(* PPM writer (main.rs).                                                   *)
(*                                                                         *)
(* Numbers.  The program computes in f64.  The model computes in integers  *)
(* on inputs where the f64 computation is exact:                           *)
(*   - the marcher is driven along one world axis: points are integers p,  *)
(*     ray directions are the two unit vectors -1 and +1 of that axis and  *)
(*     spheres are centred on it, so sqrt((c - p)^2) = |c - p| exactly;    *)
(*   - a direction produced by the RayGenerator is kept as the primitive   *)
(*     integer vector parallel to it: normalize() divides by a positive    *)
(*     length, so two vectors have the same normalized value exactly when  *)
(*     they have the same primitive vector.                                *)
(***************************************************************************)
EXTENDS Integers, Sequences, FiniteSets

VARIABLES
    image_width,       \* RayGenerator.image_width / RayMarcher.image_width
    image_height,      \* RayGenerator.image_height
    x,                 \* RayGenerator.x
    y,                 \* RayGenerator.y
    emitted,           \* the directions next() has returned as Some, in order
    nones,             \* how many times next() has returned None
    scene,             \* Scene.objects, a sequence of scene objects
    ray_dist_epsilon,  \* RayMarcher.ray_dist_epsilon
    max_steps,         \* RayMarcher.max_steps
    direction,         \* the direction argument of send_ray / send_ray_dist
    dist_run,          \* the activation of send_ray_dist
    ray_run,           \* the activation of send_ray
    distances,         \* march: the collected per-ray depths
    max_dist,          \* march: max_dist, as a sequence of length 0 or 1
    pixels,            \* Image.pixels
    ppm,               \* what save_as_ppm has written
    pc                 \* where the program is

vars == <<image_width, image_height, x, y, emitted, nones, scene,
          ray_dist_epsilon, max_steps, direction, dist_run, ray_run,
          distances, max_dist, pixels, ppm, pc>>

genVars == <<image_width, image_height, x, y, emitted, nones>>
rayVars == <<scene, ray_dist_epsilon, max_steps, direction, dist_run, ray_run>>
frameVars == <<distances, max_dist, pixels, ppm>>

-----------------------------------------------------------------------------
(* Bounds of the model.                                                    *)

\* SpecGen: image_width and image_height range over 2..GenMaxDim.
GenMaxDim == 5
\* SpecGen: next() is called at most this many times after the first None.
MaxNone == 2
\* SpecMarch: image_width ranges over 2..MaxWidth.
MaxWidth == 2
\* max_steps ranges over 0..MaxSteps.
MaxSteps == 3
\* SpecRay: a scene holds 1..MaxObjects objects.
MaxObjects == 2

-----------------------------------------------------------------------------
(* Arithmetic helpers.                                                     *)

Abs(n) == IF n < 0 THEN -n ELSE n

Max2(a, b) == IF a >= b THEN a ELSE b

RECURSIVE Gcd(_, _)
Gcd(a, b) == IF b = 0 THEN Abs(a) ELSE Gcd(Abs(b), Abs(a) % Abs(b))

RECURSIVE SumSeq(_)
SumSeq(s) == IF s = <<>> THEN 0 ELSE s[1] + SumSeq(Tail(s))

-----------------------------------------------------------------------------
(* vec_util.rs and camera.rs                                               *)

\* normalize(v) = v / sqrt(v.norm2()): the unit vector parallel to v, kept as
\* the primitive integer vector parallel to v (v divided by the gcd of its
\* components).  The zero vector has no direction: the code yields NaNs.
normalize(v) ==
    LET g == Gcd(Gcd(v[1], v[2]), v[3])
    IN  IF g = 0 THEN <<"NaN", "NaN", "NaN">>
        ELSE <<v[1] \div g, v[2] \div g, v[3] \div g>>

\* Camera::default(), each float as a fraction <<numerator, denominator>>.
DefaultCamera ==
    [ center          |-> 0,
      viewport_height |-> <<2, 1>>,
      viewport_width  |-> <<32, 9>>,
      focal_length    |-> <<1, 1>> ]

\* screen_v - origin of next(), for the cursor (cx, cy):
\*   lower_left_corner + horizontal * u + vertical * v - origin
\*     = (vw * (u - 1/2), vh * (v - 1/2), -focal),  u = cx/(w-1), v = cy/(h-1),
\* multiplied by the positive number 2 * vw_den * vh_den * f_den * (w-1) * (h-1),
\* which normalize() cancels.
ScreenVector(cam, cx, cy, w, h) ==
    LET vw == cam.viewport_width
        vh == cam.viewport_height
        f  == cam.focal_length
    IN  << vw[1] * vh[2] * f[2] * (2 * cx - (w - 1)) * (h - 1),
           vh[1] * vw[2] * f[2] * (2 * cy - (h - 1)) * (w - 1),
           -(2 * f[1] * vw[2] * vh[2] * (w - 1) * (h - 1)) >>

\* RayGenerator::new: the cursor starts at x = 0, y = image_height - 1.
RayGeneratorNew(w, h) == [x |-> 0, y |-> h - 1]

\* A cursor that scans the rows bottom-up (a plausible slip).
RayGeneratorNextBottomUp(cam, w, h, cx, cy) ==
    IF cy = h - 1 /\ cx >= w
    THEN [some |-> FALSE, item |-> <<>>, x |-> cx, y |-> cy]
    ELSE LET dir == normalize(ScreenVector(cam, cx, (h - 1) - cy, w, h))
             nx  == cx + 1
         IN  IF nx >= w /\ cy < h - 1
             THEN [some |-> TRUE, item |-> dir, x |-> 0, y |-> cy + 1]
             ELSE [some |-> TRUE, item |-> dir, x |-> nx, y |-> cy]

\* A cursor that stops one element early on the last row (a plausible slip).
RayGeneratorNextShort(cam, w, h, cx, cy) ==
    IF cy = 0 /\ cx >= w - 1
    THEN [some |-> FALSE, item |-> <<>>, x |-> cx, y |-> cy]
    ELSE LET dir == normalize(ScreenVector(cam, cx, cy, w, h))
             nx  == cx + 1
         IN  IF nx >= w /\ cy > 0
             THEN [some |-> TRUE, item |-> dir, x |-> 0, y |-> cy - 1]
             ELSE [some |-> TRUE, item |-> dir, x |-> nx, y |-> cy]

\* RayGenerator::next on the cursor (cx, cy): the returned Option and the
\* cursor afterwards.
RayGeneratorNext(cam, w, h, cx, cy) ==
    IF cy = 0 /\ cx >= w
    THEN [some |-> FALSE, item |-> <<>>, x |-> cx, y |-> cy]
    ELSE LET dir == normalize(ScreenVector(cam, cx, cy, w, h))
             nx  == cx + 1
         IN  IF nx >= w /\ cy > 0
             THEN [some |-> TRUE, item |-> dir, x |-> 0, y |-> cy - 1]
             ELSE [some |-> TRUE, item |-> dir, x |-> nx, y |-> cy]

-----------------------------------------------------------------------------
(* scene.rs                                                                *)

\* The radius embedded in Sphere::get_sdf.
SphereRadius == 2

\* ExclusionObject::get_color.
ExclusionColor == <<100, 100, 100>>

\* Scene::default().background_color: the Default of (u8, u8, u8).
BackgroundColor == <<0, 0, 0>>

Sphere(center, color) == [kind |-> "Sphere", center |-> center, color |-> color]

ExclusionObject(a, b) == [kind |-> "ExclusionObject", a |-> a, b |-> b]

\* SceneObject::get_sdf, dispatched on the implementor.
\*   Sphere:          sqrt((center - p).norm2()) - 2.
\*   ExclusionObject: f64::max(a.get_sdf(p), -b.get_sdf(p))
RECURSIVE get_sdf(_, _)
get_sdf(obj, p) ==
    IF obj.kind = "Sphere"
    THEN Abs(obj.center - p) - SphereRadius
    ELSE Max2(get_sdf(obj.a, p), -get_sdf(obj.b, p))

\* SceneObject::get_color.
get_color(obj) ==
    IF obj.kind = "Sphere" THEN obj.color ELSE ExclusionColor

\* Iterator::min_by keeping the later of two equal elements (a plausible slip:
\* it is what Iterator::max_by does).
RECURSIVE MinByLast(_)
MinByLast(s) ==
    IF Len(s) = 1 THEN s[1]
    ELSE LET best == MinByLast(SubSeq(s, 1, Len(s) - 1))
             last == s[Len(s)]
         IN  IF best[1] < last[1] THEN best ELSE last

\* Iterator::min_by over a non-empty sequence of tuples compared on their
\* first component: a left fold that replaces the running minimum only by a
\* strictly smaller element (Ordering::Greater), so the first of several equal
\* minima is returned.
RECURSIVE MinBy(_)
MinBy(s) ==
    IF Len(s) = 1 THEN s[1]
    ELSE LET best == MinBy(SubSeq(s, 1, Len(s) - 1))
             last == s[Len(s)]
         IN  IF best[1] > last[1] THEN last ELSE best

\* Iterator::max_by: the same fold, the running maximum replaced unless it is
\* strictly greater, so the last of several equal maxima is returned.
RECURSIVE MaxBy(_)
MaxBy(s) ==
    IF Len(s) = 1 THEN s[1]
    ELSE LET best == MaxBy(SubSeq(s, 1, Len(s) - 1))
             last == s[Len(s)]
         IN  IF best[1] > last[1] THEN best ELSE last

\* Scene::sdf.  The scene is not empty (expect("Scene should not be empty")).
sdf(objects, p) ==
    MinBy([i \in 1..Len(objects) |-> <<get_sdf(objects[i], p)>>])[1]

\* Scene::sdf_with_color.
sdf_with_color(objects, p) ==
    MinBy([i \in 1..Len(objects) |->
              <<get_sdf(objects[i], p), get_color(objects[i])>>])

-----------------------------------------------------------------------------
(* main.rs: the sphere-tracing integrators                                 *)

\* The value send_ray_dist returns when the step budget is exhausted.
MissSentinel == -1

\* The two unit vectors of the modelled axis.
AxisDirections == {-1, 1}

\* An activation of send_ray_dist or send_ray at its entry: depth = 0.0, the
\* range 0..max_steps not yet started, nothing returned.  ret is <<>> until
\* the function returns and <<value>> afterwards; hit tells which return
\* statement was taken; dists and visited record the distance every
\* sdf_with_color call returned and the depth it was called at.
RunNew ==
    [depth |-> 0, step |-> 0, ret |-> <<>>, hit |-> FALSE,
     dists |-> <<>>, visited |-> <<>>]

\* send_ray_dist with the range 0..=max_steps (a plausible off-by-one).
SendRayDistStepInclusive(run, origin, dir, objects, eps, steps) ==
    IF run.step <= steps
    THEN LET q == sdf_with_color(objects, origin + dir * run.depth)
             seen == [run EXCEPT !.dists = Append(@, q[1]),
                                 !.visited = Append(@, run.depth)]
         IN  IF q[1] < eps
             THEN [seen EXCEPT !.ret = <<run.depth>>, !.hit = TRUE]
             ELSE [seen EXCEPT !.depth = @ + q[1], !.step = @ + 1]
    ELSE [run EXCEPT !.ret = <<MissSentinel>>]

\* send_ray_dist adding the last distance before it returns (the commented-out
\* variant of main.rs returns the moved point's distance).
SendRayDistStepOvershoot(run, origin, dir, objects, eps, steps) ==
    IF run.step < steps
    THEN LET q == sdf_with_color(objects, origin + dir * run.depth)
             seen == [run EXCEPT !.dists = Append(@, q[1]),
                                 !.visited = Append(@, run.depth)]
         IN  IF q[1] < eps
             THEN [seen EXCEPT !.ret = <<run.depth + q[1]>>, !.hit = TRUE]
             ELSE [seen EXCEPT !.depth = @ + q[1], !.step = @ + 1]
    ELSE [run EXCEPT !.ret = <<MissSentinel>>]

\* send_ray_dist stepping backwards (a plausible sign slip).
SendRayDistStepBackwards(run, origin, dir, objects, eps, steps) ==
    IF run.step < steps
    THEN LET q == sdf_with_color(objects, origin + dir * run.depth)
             seen == [run EXCEPT !.dists = Append(@, q[1]),
                                 !.visited = Append(@, run.depth)]
         IN  IF q[1] < eps
             THEN [seen EXCEPT !.ret = <<run.depth>>, !.hit = TRUE]
             ELSE [seen EXCEPT !.depth = @ - q[1], !.step = @ + 1]
    ELSE [run EXCEPT !.ret = <<MissSentinel>>]

\* One iteration of send_ray_dist's loop, or its end:
\*   for _step in 0..self.max_steps {
\*       let (dist, _color) = scene.sdf_with_color(origin + direction * depth);
\*       if dist < self.ray_dist_epsilon { return depth; }
\*       depth += dist
\*   }
\*   -1.0
SendRayDistStep(run, origin, dir, objects, eps, steps) ==
    IF run.step < steps
    THEN LET q == sdf_with_color(objects, origin + dir * run.depth)
             seen == [run EXCEPT !.dists = Append(@, q[1]),
                                 !.visited = Append(@, run.depth)]
         IN  IF q[1] < eps
             THEN [seen EXCEPT !.ret = <<run.depth>>, !.hit = TRUE]
             ELSE [seen EXCEPT !.depth = @ + q[1], !.step = @ + 1]
    ELSE [run EXCEPT !.ret = <<MissSentinel>>]

\* send_ray testing the hit one step late (a plausible slip: the two copies of
\* the loop drifting apart).
SendRayStepLate(run, origin, dir, objects, eps, steps) ==
    IF run.step < steps
    THEN LET q == sdf_with_color(objects, origin + dir * run.depth)
             seen == [run EXCEPT !.dists = Append(@, q[1]),
                                 !.visited = Append(@, run.depth)]
         IN  IF q[1] < eps /\ run.step > 0
             THEN [seen EXCEPT !.ret = <<q[2]>>, !.hit = TRUE]
             ELSE [seen EXCEPT !.depth = @ + q[1], !.step = @ + 1]
    ELSE [run EXCEPT !.ret = <<BackgroundColor>>]

\* One iteration of send_ray's loop, or its end:
\*   for _step in 0..self.max_steps {
\*       let (dist, color) = scene.sdf_with_color(origin + direction * depth);
\*       if dist < self.ray_dist_epsilon { return color; }
\*       depth += dist
\*   }
\*   scene.background_color
SendRayStep(run, origin, dir, objects, eps, steps) ==
    IF run.step < steps
    THEN LET q == sdf_with_color(objects, origin + dir * run.depth)
             seen == [run EXCEPT !.dists = Append(@, q[1]),
                                 !.visited = Append(@, run.depth)]
         IN  IF q[1] < eps
             THEN [seen EXCEPT !.ret = <<q[2]>>, !.hit = TRUE]
             ELSE [seen EXCEPT !.depth = @ + q[1], !.step = @ + 1]
    ELSE [run EXCEPT !.ret = <<BackgroundColor>>]

\* send_ray_dist from entry to return: the value it returns.
RECURSIVE SendRayDistFrom(_, _, _, _, _, _)
SendRayDistFrom(run, origin, dir, objects, eps, steps) ==
    IF run.ret # <<>> THEN run.ret[1]
    ELSE SendRayDistFrom(SendRayDistStep(run, origin, dir, objects, eps, steps),
                         origin, dir, objects, eps, steps)

send_ray_dist(origin, dir, objects, eps, steps) ==
    SendRayDistFrom(RunNew, origin, dir, objects, eps, steps)

-----------------------------------------------------------------------------
(* main.rs: frame assembly and the PPM writer                              *)

\* image_height = (self.image_width as f64 / self.aspect_ratio) as u32, the
\* aspect ratio a fraction <<numerator, denominator>>.
DerivedHeight(w, aspect) == (w * aspect[2]) \div aspect[1]

\* `v as u8` for the f64 v = num / den: NaN (0/0) becomes 0, the fraction is
\* dropped and the result saturates at 0 and 255.
F64AsU8(num, den) ==
    IF den = 0 THEN (IF num > 0 THEN 255 ELSE 0)
    ELSE LET neg == (num < 0) # (den < 0)
             mag == Abs(num) \div Abs(den)
         IN  IF neg THEN 0 ELSE IF mag > 255 THEN 255 ELSE mag

\* g = (1.0 - d / max_dist) * 255.0, then g as u8.  With max_dist = 0 the
\* quotient is NaN (d = 0) or +inf (d > 0), and g as u8 is 0 either way.  The
\* f64 value and the exact one have the same integer part for the depths the
\* frames of this model produce (max_dist <= 4).
Gray(d, m) ==
    IF m = 0 THEN 0 ELSE F64AsU8(255 * (m - d), m)

\* A shading that maps depth to intensity without the inversion (a plausible
\* slip: near is dark).
ShadeDirect(d, m) ==
    IF d < 0 THEN <<0, 0, 0>>
    ELSE LET g == IF m = 0 THEN 0 ELSE F64AsU8(255 * d, m) IN <<g, g, g>>

\* The closure of march that maps one depth to one pixel.
Shade(d, m) ==
    IF d < 0 THEN <<0, 0, 0>>
    ELSE LET g == Gray(d, m) IN <<g, g, g>>

\* A normalizer that takes the first depth instead of the greatest one.
FrameMaxFirst(ds) == ds[1]

\* max_dist of march: distances.iter().max_by(partial_cmp), over every
\* collected value, miss sentinels included.
FrameMax(ds) == MaxBy([i \in 1..Len(ds) |-> <<ds[i]>>])[1]

\* The pixel rows save_as_ppm writes after the header: a newline before pixel
\* i when i % image_height == 0, then the pixel.
RECURSIVE PpmRows(_, _, _, _)
PpmRows(pix, h, i, rows) ==
    IF i >= Len(pix) THEN rows
    ELSE LET started == IF i % h = 0 THEN Append(rows, <<>>) ELSE rows
         IN  PpmRows(pix, h, i + 1,
                     [started EXCEPT ![Len(started)] = Append(@, pix[i + 1])])

\* save_as_ppm: "P3", "<width> <height>", "255" and the pixel rows.
PpmFile(pix, w, h) ==
    [magic |-> "P3", size |-> <<w, h>>, maxval |-> 255,
     rows |-> PpmRows(pix, h, 0, <<>>)]

-----------------------------------------------------------------------------
(* Inputs                                                                  *)

Red == <<200, 0, 0>>
Green == <<0, 200, 0>>

\* ray_dist_epsilon in units of the axis: zero and one unit.
Epsilons == {0, 1}

\* The scene objects SpecRay builds scenes from: two spheres with the same
\* centre and different colours, a sphere mirrored about the origin, a sphere
\* that contains the origin and a sphere with another one carved out of it.
ObjectPool ==
    { Sphere(3, Red), Sphere(3, Green), Sphere(-3, Green), Sphere(0, Red),
      ExclusionObject(Sphere(6, Red), Sphere(3, Green)) }

Scenes == UNION {[1..n -> ObjectPool] : n \in 1..MaxObjects}

\* The scenes SpecMarch renders: a sphere ahead of the +1 rays only, spheres
\* on both sides at different distances, a sphere around the camera.
FrameScenes ==
    { <<Sphere(5, Red)>>,
      <<Sphere(5, Red), Sphere(-4, Green)>>,
      <<Sphere(3, Red), Sphere(-6, Green)>>,
      <<Sphere(0, Red)>> }

\* aspect_ratio values, as fractions: square frames and frames taller than wide.
AspectRatios == {<<1, 1>>, <<2, 3>>}

-----------------------------------------------------------------------------
(* SpecGen: a RayGenerator and a caller that keeps calling next()          *)

InitGen ==
    /\ image_width \in 2..GenMaxDim
    /\ image_height \in 2..GenMaxDim
    /\ x = RayGeneratorNew(image_width, image_height).x
    /\ y = RayGeneratorNew(image_width, image_height).y
    /\ emitted = <<>>
    /\ nones = 0
    /\ scene = <<>> /\ ray_dist_epsilon = 0 /\ max_steps = 0 /\ direction = 1
    /\ dist_run = RunNew /\ ray_run = RunNew
    /\ distances = <<>> /\ max_dist = <<>> /\ pixels = <<>> /\ ppm = <<>>
    /\ pc = "gen"

\* next() returns Some(direction).
NextSome ==
    /\ pc = "gen"
    /\ LET n == RayGeneratorNext(DefaultCamera, image_width, image_height, x, y)
       IN  /\ n.some
           /\ emitted' = Append(emitted, n.item)
           /\ x' = n.x
           /\ y' = n.y
    /\ UNCHANGED <<image_width, image_height, nones, rayVars, frameVars, pc>>

\* next() returns None.
NextNone ==
    /\ pc = "gen"
    /\ nones < MaxNone
    /\ LET n == RayGeneratorNext(DefaultCamera, image_width, image_height, x, y)
       IN  /\ ~n.some
           /\ x' = n.x
           /\ y' = n.y
    /\ nones' = nones + 1
    /\ UNCHANGED <<image_width, image_height, emitted, rayVars, frameVars, pc>>

NextGen == NextSome \/ NextNone

SpecGen == InitGen /\ [][NextGen]_vars

-----------------------------------------------------------------------------
(* SpecRay: send_ray_dist and send_ray called with the same arguments      *)

InitRay ==
    /\ scene \in Scenes
    /\ ray_dist_epsilon \in Epsilons
    /\ max_steps \in 0..MaxSteps
    /\ direction \in AxisDirections
    /\ dist_run = RunNew
    /\ ray_run = RunNew
    /\ image_width = 0 /\ image_height = 0 /\ x = 0 /\ y = 0
    /\ emitted = <<>> /\ nones = 0
    /\ distances = <<>> /\ max_dist = <<>> /\ pixels = <<>> /\ ppm = <<>>
    /\ pc = "ray"

SendRayDistAdvance ==
    /\ pc = "ray"
    /\ dist_run.ret = <<>>
    /\ dist_run' = SendRayDistStep(dist_run, DefaultCamera.center, direction,
                                   scene, ray_dist_epsilon, max_steps)
    /\ UNCHANGED <<genVars, scene, ray_dist_epsilon, max_steps, direction,
                   ray_run, frameVars, pc>>

SendRayAdvance ==
    /\ pc = "ray"
    /\ ray_run.ret = <<>>
    /\ ray_run' = SendRayStep(ray_run, DefaultCamera.center, direction,
                              scene, ray_dist_epsilon, max_steps)
    /\ UNCHANGED <<genVars, scene, ray_dist_epsilon, max_steps, direction,
                   dist_run, frameVars, pc>>

NextRay == SendRayDistAdvance \/ SendRayAdvance

SpecRay == InitRay /\ [][NextRay]_vars

-----------------------------------------------------------------------------
(* SpecMarch: march, then save_as_ppm on the Image it returns              *)

InitMarch ==
    /\ image_width \in 2..MaxWidth
    /\ \E a \in AspectRatios : image_height = DerivedHeight(image_width, a)
    /\ image_height >= 2
    /\ x = RayGeneratorNew(image_width, image_height).x
    /\ y = RayGeneratorNew(image_width, image_height).y
    /\ emitted = <<>>
    /\ nones = 0
    /\ scene \in FrameScenes
    /\ ray_dist_epsilon \in Epsilons
    /\ max_steps = MaxSteps
    /\ direction = 1
    /\ dist_run = RunNew /\ ray_run = RunNew
    /\ distances = <<>> /\ max_dist = <<>> /\ pixels = <<>> /\ ppm = <<>>
    /\ pc = "march"

\* One element of the collect() of march: the generator yields a direction and
\* the closure sends the ray.  Which way the pixel's ray faces on the modelled
\* axis is part of the input.
MarchRay ==
    /\ pc = "march"
    /\ LET n == RayGeneratorNext(DefaultCamera, image_width, image_height, x, y)
       IN  /\ n.some
           /\ emitted' = Append(emitted, n.item)
           /\ x' = n.x
           /\ y' = n.y
    /\ \E dir \in AxisDirections :
           /\ direction' = dir
           /\ distances' = Append(distances,
                  send_ray_dist(DefaultCamera.center, dir, scene,
                                ray_dist_epsilon, max_steps))
    /\ UNCHANGED <<image_width, image_height, nones, scene, ray_dist_epsilon,
                   max_steps, dist_run, ray_run, max_dist, pixels, ppm, pc>>

\* The generator is exhausted: max_dist, the pixels and the Image.  An empty
\* distance list fails expect("Empty pixels?").
MarchAssemble ==
    /\ pc = "march"
    /\ LET n == RayGeneratorNext(DefaultCamera, image_width, image_height, x, y)
       IN  /\ ~n.some
           /\ x' = n.x
           /\ y' = n.y
    /\ nones' = nones + 1
    /\ IF distances = <<>>
       THEN /\ pc' = "panicked"
            /\ UNCHANGED <<max_dist, pixels>>
       ELSE /\ max_dist' = <<FrameMax(distances)>>
            /\ pixels' = [i \in 1..Len(distances) |->
                             Shade(distances[i], FrameMax(distances))]
            /\ pc' = "rendered"
    /\ UNCHANGED <<image_width, image_height, emitted, rayVars, distances, ppm>>

SaveAsPpm ==
    /\ pc = "rendered"
    /\ ppm' = <<PpmFile(pixels, image_width, image_height)>>
    /\ pc' = "saved"
    /\ UNCHANGED <<genVars, rayVars, distances, max_dist, pixels>>

NextMarch == MarchRay \/ MarchAssemble \/ SaveAsPpm

SpecMarch == InitMarch /\ [][NextMarch]_vars

-----------------------------------------------------------------------------
(* Claims about the RayGenerator (SpecGen)                                 *)

GenPending == RayGeneratorNext(DefaultCamera, image_width, image_height, x, y)

\* C1: a fresh RayGenerator returns Some exactly image_width * image_height
\* times and None afterwards: while fewer elements have been returned the next
\* call returns Some, once that many have been returned it returns None, and
\* a None is never followed by a further element.
C1_ExactlyWidthTimesHeight ==
    /\ Len(emitted) <= image_width * image_height
    /\ Len(emitted) < image_width * image_height => GenPending.some
    /\ Len(emitted) = image_width * image_height => ~GenPending.some
    /\ nones > 0 => Len(emitted) = image_width * image_height

C1_Witness ==
    /\ nones = MaxNone
    /\ image_width # image_height
    /\ Len(emitted) = image_width * image_height

\* C2: the k-th direction returned (k = 0, 1, ...) is the one of the cursor
\* x = k mod W, y = (H - 1) - (k div W): rows from y = H - 1 down to 0, and x
\* from 0 to W - 1 within a row.
C2_ScanOrder ==
    \A k \in 0..(Len(emitted) - 1) :
        emitted[k + 1] =
            normalize(ScreenVector(DefaultCamera, k % image_width,
                                   (image_height - 1) - (k \div image_width),
                                   image_width, image_height))

C2_Witness ==
    /\ image_width = 3 /\ image_height = 2
    /\ Len(emitted) = 6
    /\ emitted[1] = normalize(ScreenVector(DefaultCamera, 0, 1, 3, 2))
    /\ emitted[4] = normalize(ScreenVector(DefaultCamera, 0, 0, 3, 2))
    /\ emitted[6] = normalize(ScreenVector(DefaultCamera, 2, 0, 3, 2))
    /\ emitted[1] # emitted[4]

-----------------------------------------------------------------------------
(* Claims about the scene and the integrators (SpecRay)                    *)

Returned(run) == run.ret # <<>>

Black == <<0, 0, 0>>

PointAt(depth) == DefaultCamera.center + direction * depth

\* The index of the first object of the scene whose distance at p is minimal.
FirstNearest(objects, p) ==
    CHOOSE i \in 1..Len(objects) :
        /\ \A j \in 1..Len(objects) : get_sdf(objects[i], p) <= get_sdf(objects[j], p)
        /\ \A j \in 1..(i - 1) : get_sdf(objects[j], p) > get_sdf(objects[i], p)

NearestPairAt(p) ==
    LET i == FirstNearest(scene, p)
    IN  /\ sdf_with_color(scene, p) = <<get_sdf(scene[i], p), get_color(scene[i])>>
        /\ sdf(scene, p) = sdf_with_color(scene, p)[1]

\* C7: at every point the integrators query, sdf_with_color returns the
\* (distance, color) pair of the first object whose distance is the minimum
\* over all objects, and sdf returns the distance of that pair.
C7_FirstNearestWins ==
    /\ NearestPairAt(PointAt(dist_run.depth))
    /\ NearestPairAt(PointAt(ray_run.depth))

C7_Witness ==
    LET p == PointAt(dist_run.depth)
    IN  /\ dist_run.depth > 0
        /\ \E i, j \in 1..Len(scene) :
              /\ i < j
              /\ get_sdf(scene[i], p) = get_sdf(scene[j], p)
              /\ get_sdf(scene[i], p) = sdf(scene, p)
              /\ get_color(scene[i]) # get_color(scene[j])
              /\ sdf_with_color(scene, p)[2] = get_color(scene[i])

\* C3: send_ray_dist never evaluates the scene SDF more than max_steps times;
\* it returns the miss sentinel exactly when none of its evaluations was below
\* ray_dist_epsilon, and then it has made exactly max_steps evaluations.
C3_MissAfterMaxSteps ==
    /\ Len(dist_run.dists) <= max_steps
    /\ Returned(dist_run) =>
          /\ (dist_run.ret[1] = MissSentinel) <=>
                (\A i \in 1..Len(dist_run.dists) :
                     dist_run.dists[i] >= ray_dist_epsilon)
          /\ dist_run.ret[1] = MissSentinel => Len(dist_run.dists) = max_steps

C3_Witness ==
    /\ Returned(dist_run)
    /\ dist_run.ret[1] = MissSentinel
    /\ max_steps >= 2
    /\ Len(dist_run.dists) = max_steps
    /\ dist_run.depth > 0

\* C4: a non-miss value d returned by send_ray_dist is the sum of the SDF
\* values of the earlier steps (the distance that triggered the hit is not
\* added), and the scene SDF at origin + direction * d is below
\* ray_dist_epsilon.
C4_HitDepth ==
    (Returned(dist_run) /\ dist_run.ret[1] # MissSentinel) =>
        LET n == Len(dist_run.dists)
            d == dist_run.ret[1]
        IN  /\ n >= 1
            /\ d = SumSeq(SubSeq(dist_run.dists, 1, n - 1))
            /\ dist_run.dists[n] < ray_dist_epsilon
            /\ sdf(scene, PointAt(d)) < ray_dist_epsilon

C4_Witness ==
    /\ Returned(dist_run)
    /\ dist_run.ret[1] # MissSentinel
    /\ Len(dist_run.dists) >= 3
    /\ dist_run.ret[1] > 0

\* C9: with ray_dist_epsilon >= 0 the depth of send_ray_dist starts at 0 and
\* never decreases, every distance added is >= ray_dist_epsilon, and a hit
\* returns a depth >= 0, which the test d < 0.0 of march does not take for a
\* miss.
C9_DepthMonotone ==
    ray_dist_epsilon >= 0 =>
        LET v == dist_run.visited
            n == Len(v)
        IN  /\ n >= 1 => v[1] = 0
            /\ \A i \in 1..(n - 1) :
                  /\ v[i + 1] = v[i] + dist_run.dists[i]
                  /\ dist_run.dists[i] >= ray_dist_epsilon
                  /\ v[i] <= v[i + 1]
            /\ dist_run.depth >= 0
            /\ dist_run.hit =>
                  /\ dist_run.ret[1] >= 0
                  /\ dist_run.ret[1] # MissSentinel
                  /\ ~(dist_run.ret[1] < 0)

C9_Witness ==
    /\ dist_run.hit
    /\ Len(dist_run.visited) >= 3
    /\ dist_run.visited[2] < dist_run.visited[3]
    /\ dist_run.ret[1] > 0

Min2(a, b) == IF a <= b THEN a ELSE b

\* C10: called with the same arguments, send_ray and send_ray_dist query the
\* same depths and get the same distances, end after the same number of
\* queries, and send_ray returns through its hit branch, with the colour of
\* the winning object at the hit point, exactly when send_ray_dist returns a
\* non-miss depth; otherwise it returns the background colour and
\* send_ray_dist returns the miss sentinel.
C10_SameMarch ==
    /\ \A i \in 1..Min2(Len(dist_run.visited), Len(ray_run.visited)) :
          /\ dist_run.visited[i] = ray_run.visited[i]
          /\ dist_run.dists[i] = ray_run.dists[i]
    /\ (Returned(dist_run) /\ Returned(ray_run)) =>
          /\ Len(dist_run.visited) = Len(ray_run.visited)
          /\ dist_run.step = ray_run.step
          /\ ray_run.hit <=> (dist_run.ret[1] # MissSentinel)
          /\ ray_run.hit =>
                ray_run.ret[1] =
                    get_color(scene[FirstNearest(scene, PointAt(dist_run.ret[1]))])
          /\ ~ray_run.hit =>
                /\ ray_run.ret[1] = BackgroundColor
                /\ dist_run.ret[1] = MissSentinel

C10_Witness ==
    /\ Returned(dist_run) /\ Returned(ray_run)
    /\ ray_run.hit
    /\ Len(ray_run.visited) >= 2
    /\ Len(scene) >= 2
    /\ ray_run.ret[1] = Green

-----------------------------------------------------------------------------
(* Claims about frame assembly and the PPM writer (SpecMarch)              *)

MaxOf(S) == CHOOSE m \in S : \A n \in S : n <= m

\* The depths of the frame that are not the miss sentinel.
FiniteDepths == {distances[i] : i \in {j \in 1..Len(distances) : distances[j] # MissSentinel}}

ImageReturned == pc \in {"rendered", "saved"}

C6_DepthShading ==
    ImageReturned =>
        /\ Len(pixels) = Len(emitted)
        /\ Len(pixels) = Len(distances)
        /\ Len(pixels) = image_width * image_height
        /\ \A i \in 1..Len(pixels) :
              IF distances[i] = MissSentinel
              THEN pixels[i] = Black
              ELSE LET g == Gray(distances[i], MaxOf(FiniteDepths))
                   IN  pixels[i] = <<g, g, g>>

C6_Witness ==
    /\ ImageReturned
    /\ \E i, j \in 1..Len(pixels) :
          /\ distances[i] = 2 /\ distances[j] = 3
          /\ pixels[i] = <<85, 85, 85>>
          /\ pixels[j] = Black

\* C8, as stated: after the header P3, "<width> <height>", 255 the file holds
\* image_height rows of image_width pixels each, in generator order.
C8_RowsOfWidthPixels ==
    pc = "saved" =>
        LET f == ppm[1]
        IN  /\ f.magic = "P3" /\ f.size = <<image_width, image_height>>
            /\ f.maxval = 255
            /\ Len(f.rows) = image_height
            /\ \A r \in 1..Len(f.rows) :
                  /\ Len(f.rows[r]) = image_width
                  /\ \A c \in 1..Len(f.rows[r]) :
                        f.rows[r][c] = pixels[(r - 1) * image_width + c]

====
